---- MODULE Spec2Model ----
(***************************************************************************)
(* Verification model of the pod-autoscaling benchmark:                    *)
(*   benchmark.py   parameter_variation, parameter_variation_namespace,    *)
(*                  benchmark, start_run, get_prometheus_metric            *)
(*   formatting.py  get_data, get_variation_matrices, filter_data,         *)
(*                  save_data                                              *)
(*   ml.py          get_data, train_for_all_targets, save_model,           *)
(*                  load_model, get_models, get_best_parameters            *)
(* and of the file writes of the three files.                              *)
(* numpy arrays are functions on 0..n-1, as the code indexes them; a       *)
(* DataFrame indexed by the iteration list is a function on 1..N.          *)
(***************************************************************************)
EXTENDS Integers, Sequences, FiniteSets, TLC

VARIABLES
    pv,          \* frame of one parameter_variation call (benchmark.py:274-311)
    csv_file,    \* the file <pod>_variation.csv: whether it exists, whether its
                 \* content predates the run, and the table written by the run
    env,         \* the settings store (.env) and the arguments of start_run
    bm,          \* frame of start_run / benchmark (benchmark.py:174-244, 376-380)
    deployed,    \* per deployment, the resources last applied to the cluster
    last_health, \* result of the latest k8s.check_teastore_health() call
    raw_dir,     \* names of the export files written into the run's folder
    log,         \* calls made to the collaborators in this benchmark run, in order
    metric_calls,  \* the calls of get_prometheus_metric made so far, in order
    prom_queries,  \* the range queries sent to the monitoring backend, in order
    error_log,     \* the messages logged with logging.error, in order
    dir,           \* the folder data/raw/<directory> that filter_data reads
    fd,            \* frame of one filter_data call (formatting.py:138-178)
    filtered_file, \* the file data/filtered/<directory>_filtered.csv
    filter_log,    \* the messages formatting.py logged with logging.warning
    combined_dir,  \* the names of the files in data/combined
    models_dir,    \* per target, the file data/models/<target>.joblib
    tr,            \* frame of one train_for_all_targets call (ml.py:247-266)
    ml_log,        \* the messages ml.py logged, with their level, in order
    adv,           \* frame of one get_best_parameters call (ml.py:176-209)
    fs,            \* the files the writers of the system write, by path
    wr,            \* the writer calls made so far and how each ended, in order
    write_log      \* the messages the writers logged with logging.warning

pvVars == <<pv, csv_file>>
benchVars == <<env, bm, deployed, last_health, raw_dir, log>>
metricVars == <<metric_calls, prom_queries, error_log>>
filterVars == <<dir, fd, filtered_file, filter_log>>
trainVars == <<combined_dir, models_dir, tr, ml_log>>
advisorVars == <<adv>>
writeVars == <<fs, wr, write_log>>
mlVars == <<trainVars, advisorVars, writeVars>>
vars == <<pv, csv_file, env, bm, deployed, last_health, raw_dir, log,
          metric_calls, prom_queries, error_log, dir, fd, filtered_file, filter_log,
          combined_dir, models_dir, tr, ml_log, adv, fs, wr, write_log>>

----------------------------------------------------------------------------
(* Bounds of the model *)

MaxRequest == 2      \* cpu_request in 100 * (1..MaxRequest)
MaxCpuLimit == 10    \* cpu_limit in 50 * (2..MaxCpuLimit)
MaxMemLimit == 5     \* memory_limit in 50 * (2..MaxMemLimit)
MaxStep == 2         \* step in 50 * (1..MaxStep)
MaxPods == 3         \* pods_limit in 1..MaxPods
MaxExpr == 2         \* expressions in 0..MaxExpr
MaxRuns == 2         \* runs in 1..MaxRuns
MaxCalls == 2        \* calls of get_prometheus_metric in one behaviour
MaxFiles == 2        \* grid points (export files of each kind) in the folder read
MaxFilterRuns == 2   \* calls of filter_data on the same directory
MaxWrites == 2       \* calls of file-writing functions in one behaviour
MaxLimit == 3        \* current cpu and memory limit in 100 * (1..MaxLimit)
MaxReplicas == 2     \* current number of pods in 1..MaxReplicas
MaxWindow == 2       \* window in 1..MaxWindow

----------------------------------------------------------------------------
(* numpy helpers *)

Size(a) == Cardinality(DOMAIN a)

\* mutant of Arange: the stop value is included (a closed range)
ArangeClosed(start, stop, step) ==
    LET n == IF stop >= start THEN ((stop - start) \div step) + 1 ELSE 0
    IN  [k \in 0..(n - 1) |-> start + k * step]

\* np.arange(start, stop, step) for step > 0: ceil((stop - start) / step)
\* elements start, start + step, ...; empty when stop <= start.
Arange(start, stop, step) ==
    LET n == IF stop > start THEN (stop - start + step - 1) \div step ELSE 0
    IN  [k \in 0..(n - 1) |-> start + k * step]

\* np.flip on a 1-D array
Flip(a) == [k \in DOMAIN a |-> a[(Size(a) - 1) - k]]

\* a DataFrame cell: unset (NaN) in a freshly built frame, or holding a value
NaN == <<>>
Cell(v) == <<v>>

----------------------------------------------------------------------------
(* parameter_variation, benchmark.py:274-311 *)

\* mutant of AxisCpu: an empty range degrades to the single point cpu_request
AxisCpuSinglePoint(args) ==
    LET a == Arange(args.cpu_request, args.cpu_limit, args.step)
        b == IF a = <<>> THEN [k \in 0..0 |-> args.cpu_request] ELSE a
    IN  IF args.invert THEN Flip(b) ELSE b

\* lines 281-287: the three axes
AxisCpu(args) ==
    LET a == Arange(args.cpu_request, args.cpu_limit, args.step)
    IN  IF args.invert THEN Flip(a) ELSE a

AxisMemory(args) ==
    LET a == Arange(args.memory_request, args.memory_limit, args.step)
    IN  IF args.invert THEN Flip(a) ELSE a

AxisPods(args) ==
    LET a == Arange(1, args.pods_limit + 1, 1)
    IN  IF args.invert THEN Flip(a) ELSE a

\* lines 288-297: iteration list, empty DataFrame, zero matrix, i = 1, and the
\* position of the nested for loops ("fill" at (0,0,0), or "save" when some
\* range is empty and the loop body never runs)
PVSetup(args) ==
    LET cpu == AxisCpu(args)
        memory == AxisMemory(args)
        pods == AxisPods(args)
        n == Size(cpu) * Size(memory) * Size(pods)
    IN  [pc |-> IF n > 0 THEN "fill" ELSE "save",
         args |-> args,
         cpu |-> cpu, memory |-> memory, pods |-> pods,
         iterations |-> [k \in 1..n |-> k],
         df |-> [k \in 1..n |-> [CPU |-> NaN, Memory |-> NaN, Pods |-> NaN]],
         variation_matrix |->
             [idx \in (DOMAIN cpu) \X (DOMAIN memory) \X (DOMAIN pods) |-> <<0, 0, 0>>],
         i |-> 1, c |-> 0, m |-> 0, p |-> 0]

\* the loop headers of lines 298-300 after a pass of the body
PVAdvance(f, g) ==
    IF f.p + 1 < Size(f.pods) THEN [g EXCEPT !.p = f.p + 1]
    ELSE IF f.m + 1 < Size(f.memory) THEN [g EXCEPT !.m = f.m + 1, !.p = 0]
    ELSE IF f.c + 1 < Size(f.cpu) THEN [g EXCEPT !.c = f.c + 1, !.m = 0, !.p = 0]
    ELSE [g EXCEPT !.pc = "save"]

\* mutant of PVFillStep: the grid entry is stored as (memory, cpu, pods)
PVFillStepSwapped(f) ==
    LET matrix == [f.variation_matrix EXCEPT
                      ![<<f.c, f.m, f.p>>] = <<f.memory[f.m], f.cpu[f.c], f.pods[f.p]>>]
        df == [f.df EXCEPT ![f.i] =
                  [CPU |-> Cell(f.cpu[f.c]), Memory |-> Cell(f.memory[f.m]),
                   Pods |-> Cell(f.pods[f.p])]]
    IN  PVAdvance(f, [f EXCEPT !.variation_matrix = matrix, !.df = df, !.i = f.i + 1])

\* mutant of PVFillStep: i is advanced before the table row is written, so
\* row 1 stays unset and the last combination has no row
PVFillStepLateIndex(f) ==
    LET matrix == [f.variation_matrix EXCEPT
                      ![<<f.c, f.m, f.p>>] = <<f.cpu[f.c], f.memory[f.m], f.pods[f.p]>>]
        row == [CPU |-> Cell(f.cpu[f.c]), Memory |-> Cell(f.memory[f.m]),
                Pods |-> Cell(f.pods[f.p])]
        df == IF f.i + 1 \in DOMAIN f.df THEN [f.df EXCEPT ![f.i + 1] = row] ELSE f.df
    IN  PVAdvance(f, [f EXCEPT !.variation_matrix = matrix, !.df = df, !.i = f.i + 1])

\* lines 298-306: one pass of the innermost loop body, then the loop headers
PVFillStep(f) ==
    LET c == f.c
        m == f.m
        p == f.p
        matrix == [f.variation_matrix EXCEPT
                      ![<<c, m, p>>] = <<f.cpu[c], f.memory[m], f.pods[p]>>]
        df == [f.df EXCEPT ![f.i] =
                  [CPU |-> Cell(f.cpu[c]), Memory |-> Cell(f.memory[m]),
                   Pods |-> Cell(f.pods[p])]]
    IN  PVAdvance(f, [f EXCEPT !.variation_matrix = matrix, !.df = df, !.i = f.i + 1])

RECURSIVE PVFillAll(_)
PVFillAll(f) == IF f.pc = "fill" THEN PVFillAll(PVFillStep(f)) ELSE f

\* the matrix parameter_variation returns (line 311)
parameter_variation(args) == PVFillAll(PVSetup(args)).variation_matrix

\* the flat table parameter_variation hands to to_csv (line 310)
variation_table(args) == PVFillAll(PVSetup(args)).df

----------------------------------------------------------------------------
(* Values of the variables a specification does not use *)

NoFile == [exists |-> FALSE, prior |-> FALSE, table |-> <<>>]
PriorFile == [exists |-> TRUE, prior |-> TRUE, table |-> <<>>]
WrittenFile(table) == [exists |-> TRUE, prior |-> FALSE, table |-> table]

PVOff == pv = "none" /\ csv_file = NoFile
BenchOff ==
    /\ env = "none" /\ bm = "none" /\ deployed = "none"
    /\ last_health = FALSE /\ raw_dir = {} /\ log = <<>>
MetricOff == metric_calls = <<>> /\ prom_queries = <<>> /\ error_log = <<>>
FilterOff == dir = "none" /\ fd = "none" /\ filtered_file = NoFile /\ filter_log = <<>>
TrainOff == combined_dir = {} /\ models_dir = "none" /\ tr = "none" /\ ml_log = <<>>
AdvisorOff == adv = "none"
WriteOff == fs = "none" /\ wr = <<>> /\ write_log = <<>>
MlOff == TrainOff /\ AdvisorOff /\ WriteOff

----------------------------------------------------------------------------
(* Specification SpecPV: calls of parameter_variation on bounded inputs *)

PVArgs ==
    [cpu_request : {100 * r : r \in 1..MaxRequest},
     cpu_limit : {50 * l : l \in 2..MaxCpuLimit},
     memory_request : {100},
     memory_limit : {50 * l : l \in 2..MaxMemLimit},
     pods_limit : 1..MaxPods,
     step : {50 * s : s \in 1..MaxStep},
     invert : BOOLEAN]

PVIdle(args) ==
    [pc |-> "call", args |-> args,
     cpu |-> <<>>, memory |-> <<>>, pods |-> <<>>, iterations |-> <<>>,
     df |-> <<>>, variation_matrix |-> <<>>, i |-> 0, c |-> 0, m |-> 0, p |-> 0]

InitPV ==
    /\ \E args \in PVArgs : pv = PVIdle(args)
    /\ csv_file \in {NoFile, PriorFile}
    /\ BenchOff /\ MetricOff /\ FilterOff /\ MlOff

PVBuild ==
    /\ pv.pc = "call"
    /\ pv' = PVSetup(pv.args)
    /\ UNCHANGED <<csv_file, benchVars, metricVars, filterVars, mlVars>>

PVFill ==
    /\ pv.pc = "fill"
    /\ pv' = PVFillStep(pv)
    /\ UNCHANGED <<csv_file, benchVars, metricVars, filterVars, mlVars>>

\* lines 309-311: write the table unless the file exists, return the matrix
PVSave ==
    /\ pv.pc = "save"
    /\ csv_file' = IF ~csv_file.exists THEN WrittenFile(pv.df) ELSE csv_file
    /\ pv' = [pv EXCEPT !.pc = "returned"]
    /\ UNCHANGED <<benchVars, metricVars, filterVars, mlVars>>

NextPV == PVBuild \/ PVFill \/ PVSave

SpecPV == InitPV /\ [][NextPV]_vars

----------------------------------------------------------------------------
(* The cluster and the settings store, as benchmark.py uses them.          *)
(* A deployment name is the sequence of its "-"-separated parts.           *)

Deployments == {<<"webui">>, <<"auth">>, <<"teastore", "webui">>}

\* k8s.get_resource_requests(): deployment -> {cpu: "<n>m", memory: "<n>Mi"};
\* a quantity string is the pair <<digits, unit>>
get_resource_requests ==
    [d \in Deployments |->
        IF d = <<"auth">> THEN [cpu |-> <<200, "m">>, memory |-> <<100, "Mi">>]
                          ELSE [cpu |-> <<100, "m">>, memory |-> <<200, "Mi">>]]

\* k8s.check_teastore_health(): the results a poll can return
check_teastore_health == BOOLEAN

\* int(q.split(unit)[0]) for a quantity written in that unit
ParseQuantity(q, unit) == IF q[2] = unit THEN q[1] ELSE "ValueError"

\* scale_only in pod, with scale_only = "webui" (line 212, 224)
ScaleOnlyIn(pod) == \E k \in 1..Len(pod) : pod[k] = "webui"

\* the keys of a dict, in order
RECURSIVE KeysOf(_)
KeysOf(S) == IF S = {} THEN <<>>
             ELSE LET k == CHOOSE x \in S : TRUE IN <<k>> \o KeysOf(S \ {k})

\* parameter_variation_namespace, benchmark.py:247-271
parameter_variation_namespace(pods_limit, expressions, step, scale_pod) ==
    LET resource_requests == get_resource_requests
        keys == {p \in DOMAIN resource_requests : p = scale_pod}
        args(p) ==
            LET p_cpu_request == ParseQuantity(resource_requests[p].cpu, "m") + 100
                p_memory_request == ParseQuantity(resource_requests[p].memory, "Mi") + 100
            IN  [cpu_request |-> p_cpu_request,
                 cpu_limit |-> p_cpu_request + (expressions * step),
                 memory_request |-> p_memory_request,
                 memory_limit |-> p_memory_request + (expressions * step),
                 pods_limit |-> pods_limit, step |-> step, invert |-> TRUE]
    IN  [p \in keys |-> PVFillAll(PVSetup(args(p)))]

\* the table parameter_variation writes for the scalable deployment into the
\* run's new folder (lines 292, 309-310)
variation_table_of(e) ==
    parameter_variation_namespace(e.pods_limit, e.expressions, e.step,
                                  e.SCALE_POD)[e.SCALE_POD].df

\* variations[pod].shape
Shape(frame) == <<Size(frame.cpu), Size(frame.memory), Size(frame.pods)>>

----------------------------------------------------------------------------
(* Specification Spec: start_run and benchmark, benchmark.py:174-244, 376-380 *)

Settings ==
    [SCALE_POD : Deployments, UI : Deployments,
     expressions : 0..MaxExpr, step : {50 * s : s \in 1..MaxStep},
     pods_limit : 1..MaxPods, runs : 1..MaxRuns]

Event(ev, it) == [ev |-> ev, iteration |-> it]

Init ==
    /\ env \in Settings
    /\ bm = [pc |-> "start_run", run |-> 0, variations |-> <<>>, shape |-> <<0, 0, 0>>,
             c |-> 0, m |-> 0, p |-> 0, iteration |-> 0, pods_todo |-> <<>>]
    /\ deployed = [d \in Deployments |-> "initial"]
    /\ last_health = FALSE
    /\ raw_dir = {}
    /\ log = <<>>
    /\ PVOff /\ MetricOff /\ FilterOff /\ MlOff

\* lines 377-379: first pass of the loop over the runs
StartRun ==
    /\ bm.pc = "start_run"
    /\ bm' = [bm EXCEPT !.pc = IF 1 <= env.runs THEN "benchmark" ELSE "finished",
                        !.run = 1]
    /\ UNCHANGED <<env, deployed, last_health, raw_dir, log, pvVars, metricVars, filterVars, mlVars>>

\* lines 188-217: new folder, fresh deployment, the grid and its shape (a
\* KeyError when the UI setting is no key of the grid dict), iteration = 1 and
\* the entry into the three nested loops
BenchmarkSetup ==
    /\ bm.pc = "benchmark"
    /\ LET variations == parameter_variation_namespace(env.pods_limit, env.expressions,
                                                       env.step, env.SCALE_POD)
       IN  IF env.UI \notin DOMAIN variations
           THEN bm' = [bm EXCEPT !.pc = "KeyError", !.variations = variations]
           ELSE LET shape == Shape(variations[env.UI])
                    n == shape[1] * shape[2] * shape[3]
                IN  bm' = [bm EXCEPT !.pc = IF n > 0 THEN "apply" ELSE "delete",
                                    !.variations = variations, !.shape = shape,
                                    !.c = 0, !.m = 0, !.p = 0, !.iteration = 1,
                                    !.pods_todo = KeysOf(DOMAIN variations)]
    /\ csv_file' = WrittenFile(variation_table_of(env))
    /\ deployed' = [d \in Deployments |-> "initial"]
    /\ raw_dir' = {}
    /\ log' = <<>>
    /\ UNCHANGED <<env, last_health, pv, metricVars, filterVars, mlVars>>

\* lines 222-231: the next pod of the grid dict; its resources are updated
\* when its name contains scale_only
Apply ==
    /\ bm.pc = "apply"
    /\ LET pod == Head(bm.pods_todo)
           v == bm.variations[pod].variation_matrix[<<bm.c, bm.m, bm.p>>]
       IN  IF ScaleOnlyIn(pod)
           THEN /\ deployed' = [deployed EXCEPT ![pod] = v]
                /\ log' = Append(log, [ev |-> "update", iteration |-> bm.iteration,
                                       deployment |-> pod, v |-> v])
           ELSE UNCHANGED <<deployed, log>>
    /\ bm' = [bm EXCEPT !.pc = "sleep"]
    /\ UNCHANGED <<env, last_health, raw_dir, pvVars, metricVars, filterVars, mlVars>>

\* line 233: time.sleep(120)
Sleep ==
    /\ bm.pc = "sleep"
    /\ bm' = [bm EXCEPT !.pc = "poll"]
    /\ log' = Append(log, Event("sleep", bm.iteration))
    /\ UNCHANGED <<env, deployed, last_health, raw_dir, pvVars, metricVars, filterVars, mlVars>>

\* mutant of HealthPoll: the wait gives up on an unhealthy poll and goes on
HealthPollGiveUp ==
    /\ bm.pc = "poll"
    /\ \E h \in check_teastore_health :
        /\ last_health' = h
        /\ bm' = [bm EXCEPT !.pods_todo = Tail(bm.pods_todo),
                            !.pc = IF Tail(bm.pods_todo) = <<>> THEN "locust" ELSE "apply"]
        /\ log' = IF h THEN Append(log, Event("healthy", bm.iteration)) ELSE log
    /\ UNCHANGED <<env, deployed, raw_dir, pvVars, metricVars, filterVars, mlVars>>

\* lines 234-235: one evaluation of the while condition; unhealthy sleeps 10 s
\* and polls again, healthy goes on to the next pod or to the load test
HealthPoll ==
    /\ bm.pc = "poll"
    /\ \E h \in check_teastore_health :
        /\ last_health' = h
        /\ IF h
           THEN /\ bm' = [bm EXCEPT !.pods_todo = Tail(bm.pods_todo),
                                    !.pc = IF Tail(bm.pods_todo) = <<>>
                                           THEN "locust" ELSE "apply"]
                /\ log' = Append(log, Event("healthy", bm.iteration))
           ELSE UNCHANGED <<bm, log>>
    /\ UNCHANGED <<env, deployed, raw_dir, pvVars, metricVars, filterVars, mlVars>>

\* lines 237-238, 322-344: the load run starts and its stop timer is set
StartLocust ==
    /\ bm.pc = "locust"
    /\ bm' = [bm EXCEPT !.pc = "locust_running"]
    /\ log' = Append(log, Event("load_start", bm.iteration))
    /\ UNCHANGED <<env, deployed, last_health, raw_dir, pvVars, metricVars, filterVars, mlVars>>

\* lines 344-346: the timer quits the runner and the join returns
LocustQuit ==
    /\ bm.pc = "locust_running"
    /\ bm' = [bm EXCEPT !.pc = "export"]
    /\ log' = Append(log, Event("load_end", bm.iteration))
    /\ UNCHANGED <<env, deployed, last_health, raw_dir, pvVars, metricVars, filterVars, mlVars>>

\* mutant of GetPrometheusData: the memory loop runs innermost
GetPrometheusDataMemoryInnermost ==
    /\ bm.pc = "export"
    /\ raw_dir' = raw_dir \cup {<<"metrics", bm.iteration>>,
                                <<"custom_metrics", bm.iteration>>}
    /\ log' = Append(log, Event("export", bm.iteration))
    /\ LET g == [bm EXCEPT !.iteration = bm.iteration + 1,
                           !.pods_todo = KeysOf(DOMAIN bm.variations),
                           !.pc = "apply"]
       IN  bm' = IF bm.m + 1 < bm.shape[2] THEN [g EXCEPT !.m = bm.m + 1]
                 ELSE IF bm.p + 1 < bm.shape[3] THEN [g EXCEPT !.p = bm.p + 1, !.m = 0]
                 ELSE IF bm.c + 1 < bm.shape[1]
                      THEN [g EXCEPT !.c = bm.c + 1, !.m = 0, !.p = 0]
                 ELSE [g EXCEPT !.pc = "delete"]
    /\ UNCHANGED <<env, deployed, last_health, pvVars, metricVars, filterVars, mlVars>>

\* lines 240-241 (get_prometheus_data writes lines 86-87), then the headers of
\* the three loops
GetPrometheusData ==
    /\ bm.pc = "export"
    /\ raw_dir' = raw_dir \cup {<<"metrics", bm.iteration>>,
                                <<"custom_metrics", bm.iteration>>}
    /\ log' = Append(log, Event("export", bm.iteration))
    /\ LET g == [bm EXCEPT !.iteration = bm.iteration + 1,
                           !.pods_todo = KeysOf(DOMAIN bm.variations),
                           !.pc = "apply"]
       IN  bm' = IF bm.p + 1 < bm.shape[3] THEN [g EXCEPT !.p = bm.p + 1]
                 ELSE IF bm.m + 1 < bm.shape[2] THEN [g EXCEPT !.m = bm.m + 1, !.p = 0]
                 ELSE IF bm.c + 1 < bm.shape[1]
                      THEN [g EXCEPT !.c = bm.c + 1, !.m = 0, !.p = 0]
                 ELSE [g EXCEPT !.pc = "delete"]
    /\ UNCHANGED <<env, deployed, last_health, pvVars, metricVars, filterVars, mlVars>>

\* mutant of DeleteNamespace: start_run stops after the first benchmark run
DeleteNamespaceStopsRuns ==
    /\ bm.pc = "delete"
    /\ log' = Append(log, Event("delete", bm.iteration))
    /\ bm' = [bm EXCEPT !.pc = "finished"]
    /\ UNCHANGED <<env, deployed, last_health, raw_dir, pvVars, metricVars, filterVars, mlVars>>

\* lines 243-244, then the header of the loop over the runs (line 379)
DeleteNamespace ==
    /\ bm.pc = "delete"
    /\ log' = Append(log, Event("delete", bm.iteration))
    /\ bm' = IF bm.run + 1 <= env.runs
             THEN [bm EXCEPT !.pc = "benchmark", !.run = bm.run + 1]
             ELSE [bm EXCEPT !.pc = "finished"]
    /\ UNCHANGED <<env, deployed, last_health, raw_dir, pvVars, metricVars, filterVars, mlVars>>

Next ==
    \/ StartRun
    \/ BenchmarkSetup
    \/ Apply
    \/ Sleep
    \/ HealthPoll
    \/ StartLocust
    \/ LocustQuit
    \/ GetPrometheusData
    \/ DeleteNamespace

Spec == Init /\ [][Next]_vars

\* ENABLED <<BenchmarkSetup>>_vars: the action has no other guard and always
\* leaves this position
BenchmarkSetupEnabled == bm.pc = "benchmark"

\* The same program under the scheduling the code has: it is a single thread
\* that always takes its next step; the while loop of lines 234-235 keeps
\* polling, and polls of a cluster that becomes healthy eventually return
\* healthy; the timer of line 344 ends every load run. The weak fairness of
\* BenchmarkSetup is written out, with its enabling condition as the state
\* predicate above.
SpecLive ==
    /\ Init
    /\ [][Next]_vars
    /\ WF_vars(StartRun)
    /\ ([]<>(~BenchmarkSetupEnabled) \/ []<><<BenchmarkSetup>>_vars)
    /\ WF_vars(Apply)
    /\ WF_vars(Sleep)
    /\ WF_vars(HealthPoll /\ last_health')
    /\ WF_vars(StartLocust)
    /\ WF_vars(LocustQuit)
    /\ WF_vars(GetPrometheusData)
    /\ WF_vars(DeleteNamespace)

----------------------------------------------------------------------------
(* get_prometheus_metric, benchmark.py:133-171 *)

\* the two hand-written query expressions (lines 145-150) and the unset query
cpu_usage == "cpu_usage"
memory_usage == "memory_usage"
None == "None"

MetricNames == {"cpu", "memory", "disk", "kube_deployment_spec_replicas"}
Modes == {"RESOURCES", "NETWORK"}

\* lines 151-159: the query expression chosen on the custom path
CustomQuery(metric_name) ==
    IF metric_name = "cpu" THEN cpu_usage
    ELSE IF metric_name = "memory" THEN memory_usage
    ELSE None

\* lines 153-159: the error logged on the custom path, if any
CustomErrors(metric_name) ==
    IF metric_name \in {"cpu", "memory"} THEN <<>>
    ELSE <<[call |-> Len(metric_calls) + 1,
            message |-> <<"Accepts cpu or memory, but received ", metric_name>>]>>

\* lines 160-170: the request sent to the backend by this call
RangeQuery(metric_name, mode, custom) ==
    IF custom
    THEN [call |-> Len(metric_calls) + 1, host |-> mode, api |-> "custom_query_range",
          query |-> CustomQuery(metric_name)]
    ELSE [call |-> Len(metric_calls) + 1, host |-> mode, api |-> "get_metric_range_data",
          query |-> metric_name]

GetPrometheusMetric(metric_name, mode, custom) ==
    /\ Len(metric_calls) < MaxCalls
    /\ metric_calls' = Append(metric_calls,
                              [metric_name |-> metric_name, mode |-> mode, custom |-> custom])
    /\ error_log' = IF custom THEN error_log \o CustomErrors(metric_name) ELSE error_log
    /\ prom_queries' = Append(prom_queries, RangeQuery(metric_name, mode, custom))
    /\ UNCHANGED <<pvVars, benchVars, filterVars, mlVars>>

InitMetric == MetricOff /\ PVOff /\ BenchOff /\ FilterOff /\ MlOff

NextMetric ==
    \E metric_name \in MetricNames, mode \in Modes, custom \in BOOLEAN :
        GetPrometheusMetric(metric_name, mode, custom)

SpecMetric == InitMetric /\ [][NextMetric]_vars

----------------------------------------------------------------------------
(* The raw folder of one benchmark run, as formatting.py reads it.         *)
(* A pod name is the sequence of its "-"-separated parts, a file name the  *)
(* sequence of its "_"-separated parts.                                    *)

\* os.getenv("NAMESPACE")
NAMESPACE == "teastore"

\* the pods the monitoring backend can report on during the run
Instances ==
    {[pod |-> <<"webui", "7d9">>, namespace |-> "teastore"],
     [pod |-> <<"auth", "5c4">>, namespace |-> "teastore"],
     [pod |-> <<"prometheus", "6b8">>, namespace |-> "teastore"],
     [pod |-> <<"webui", "8e2">>, namespace |-> "teastore"],
     [pod |-> <<"grafana", "1a2">>, namespace |-> "monitoring"]}

\* rows of metrics_<k>.csv (benchmark.py:83-86): per pod the latency sum and count
MetricsFile(k, pods) ==
    {[namespace |-> i.namespace, pod |-> i.pod, name |-> n,
      value |-> IF n = "response_latency_ms_sum" THEN 6 * k ELSE 2] :
        i \in pods, n \in {"response_latency_ms_sum", "response_latency_ms_count"}}

\* rows of custom_metrics_<k>.csv (benchmark.py:70-75, 84, 87)
CustomFile(k, pods) ==
    {[metric |-> mt, pod |-> i.pod, value |-> IF mt = "cpu" THEN 10 * k ELSE 20 * k] :
        i \in pods, mt \in {"cpu", "memory"}}

\* f"{pod}_variation.csv" (benchmark.py:292)
VariationFileName(pod) == <<pod, "variation.csv">>

ListingOrders(n) == {s \in [1..n -> 1..n] : \A j, k \in 1..n : j # k => s[j] # s[k]}

\* the folder a finished run over the grid of `e` leaves behind, listed by
\* os.walk in the orders order_m (metrics files) and order_c (custom files)
RawFolder(e, pods, custom_pods, order_m, order_c) ==
    LET table == variation_table_of(e)
        n == Len(table)
    IN  [exists |-> TRUE, n |-> n,
         metrics |-> [k \in 1..n |-> MetricsFile(k, pods)],
         custom |-> [k \in 1..n |-> CustomFile(k, custom_pods)],
         variation |-> [file |-> VariationFileName(e.SCALE_POD), table |-> table],
         order_m |-> order_m, order_c |-> order_c]

\* a directory name under data/raw for which no folder exists
MissingFolder ==
    [exists |-> FALSE, n |-> 0, metrics |-> <<>>, custom |-> <<>>,
     variation |-> [file |-> <<>>, table |-> <<>>], order_m |-> <<>>, order_c |-> <<>>]

----------------------------------------------------------------------------
(* formatting.py: get_data, get_variation_matrices, filter_data, save_data *)

\* get_data with get_data_helper, lines 32-71: every file read gets the value
\* of its family's counter as Iteration, in listing order; `none` tells that
\* the frames returned are None (the folder is missing or holds no export)
get_data(d) ==
    [none |-> ~d.exists \/ d.n = 0,
     normal |-> IF ~d.exists THEN {}
                ELSE UNION {{[Iteration |-> j] @@ r : r \in d.metrics[d.order_m[j]]} :
                               j \in 1..d.n},
     custom |-> IF ~d.exists THEN {}
                ELSE UNION {{[Iteration |-> j] @@ r : r \in d.custom[d.order_c[j]]} :
                               j \in 1..d.n}]

\* get_variation_matrices, lines 116-135: the rows of the variation table,
\* with pod = str(file).split("_")[0] and the index column named Iteration
get_variation_matrices(d) ==
    [k \in 1..Len(d.variation.table) |->
        [pod |-> d.variation.file[1], Iteration |-> k,
         CPU |-> d.variation.table[k].CPU,
         Memory |-> d.variation.table[k].Memory,
         Pods |-> d.variation.table[k].Pods]]

\* column 0 of str.split("-", n=1, expand=True), which the assignment to the
\* single column "pod" keeps (lines 149-150)
FirstPart(pod) == <<Head(pod)>>

RECURSIVE SumValues(_)
SumValues(rows) ==
    IF rows = {} THEN 0
    ELSE LET r == CHOOSE x \in rows : TRUE IN r.value + SumValues(rows \ {r})

\* a cell of pivot_table(..., values="value") with the default aggfunc mean
\* (exact on the values of MetricsFile and CustomFile)
MeanCell(rows) ==
    IF rows = {} THEN NaN ELSE Cell(SumValues(rows) \div Cardinality(rows))

\* lines 152-160 for the standard metrics
PivotStandard(rows) ==
    {[Iteration |-> key[1], pod |-> key[2],
      response_latency_ms_sum |->
          MeanCell({r \in rows : /\ <<r.Iteration, r.pod>> = key
                                 /\ r.name = "response_latency_ms_sum"}),
      response_latency_ms_count |->
          MeanCell({r \in rows : /\ <<r.Iteration, r.pod>> = key
                                 /\ r.name = "response_latency_ms_count"})] :
        key \in {<<r.Iteration, r.pod>> : r \in rows}}

\* lines 154-159 for the custom metrics
PivotCustom(rows) ==
    {[Iteration |-> key[1], pod |-> key[2],
      cpu |-> MeanCell({r \in rows : <<r.Iteration, r.pod>> = key /\ r.metric = "cpu"}),
      memory |-> MeanCell({r \in rows : <<r.Iteration, r.pod>> = key
                                         /\ r.metric = "memory"})] :
        key \in {<<r.Iteration, r.pod>> : r \in rows}}

\* pd.merge(left, right, how='left', on=["Iteration", "pod"]): every left row
\* once per matching right row, or once with unset cells when none matches
MergeCustom(left, right) ==
    UNION {LET ms == {r \in right : r.Iteration = l.Iteration /\ r.pod = l.pod}
           IN  IF ms = {} THEN {l @@ [cpu |-> NaN, memory |-> NaN]}
               ELSE {l @@ [cpu |-> r.cpu, memory |-> r.memory] : r \in ms} :
           l \in left}

\* the same merge with the variation rows; vrow is the position of the
\* variation row joined (0 for none)
MergeVariations(left, variations) ==
    UNION {LET ms == {k \in 1..Len(variations) :
                         /\ variations[k].Iteration = l.Iteration
                         /\ variations[k].pod = l.pod}
           IN  IF ms = {}
               THEN {l @@ [CPU |-> NaN, Memory |-> NaN, Pods |-> NaN, vrow |-> 0]}
               ELSE {l @@ [CPU |-> variations[k].CPU, Memory |-> variations[k].Memory,
                           Pods |-> variations[k].Pods, vrow |-> k] : k \in ms} :
           l \in left}

\* line 165
AverageResponseTime(r) ==
    IF /\ r.response_latency_ms_sum # NaN
       /\ r.response_latency_ms_count # NaN
       /\ r.response_latency_ms_count # Cell(0)
    THEN Cell(r.response_latency_ms_sum[1] \div r.response_latency_ms_count[1])
    ELSE NaN

\* mutant of FilteredTable: the rows of pod "prometheus" are not dropped
FilteredTableKeepPrometheus(data, variations) ==
    LET in_namespace == {r \in data.normal : r.namespace = NAMESPACE}
        filtered_data == PivotStandard({[r EXCEPT !.pod = FirstPart(r.pod)] :
                                           r \in in_namespace})
        filtered_custom_data == PivotCustom({[r EXCEPT !.pod = FirstPart(r.pod)] :
                                                r \in data.custom})
        res_data == MergeVariations(MergeCustom(filtered_data, filtered_custom_data),
                                    variations)
    IN  {[Iteration |-> r.Iteration, pod |-> r.pod,
          cpu_usage |-> r.cpu, memory_usage |-> r.memory,
          cpu_limit |-> r.CPU, memory_limit |-> r.Memory, number_of_pods |-> r.Pods,
          average_response_time |-> AverageResponseTime(r), vrow |-> r.vrow] :
            r \in res_data}

\* lines 145-176: the table filter_data builds from what get_data returned
FilteredTable(data, variations) ==
    LET in_namespace == {r \in data.normal : r.namespace = NAMESPACE}
        filtered_data == PivotStandard({[r EXCEPT !.pod = FirstPart(r.pod)] :
                                           r \in in_namespace})
        filtered_custom_data == PivotCustom({[r EXCEPT !.pod = FirstPart(r.pod)] :
                                                r \in data.custom})
        res_data == MergeVariations(MergeCustom(filtered_data, filtered_custom_data),
                                    variations)
    IN  {[Iteration |-> r.Iteration, pod |-> r.pod,
          cpu_usage |-> r.cpu, memory_usage |-> r.memory,
          cpu_limit |-> r.CPU, memory_limit |-> r.Memory, number_of_pods |-> r.Pods,
          average_response_time |-> AverageResponseTime(r), vrow |-> r.vrow] :
            r \in {x \in res_data : x.pod # <<"prometheus">>}}

----------------------------------------------------------------------------
(* Specification SpecFilter: filter_data on the folder of a finished run *)

\* the settings of the run that wrote the folder: it got past line 210, so
\* UI names the scalable deployment; one value per CPU and memory axis
FilterSettings ==
    {e \in Settings : /\ e.UI = e.SCALE_POD
                      /\ e.expressions = 1 /\ e.step = 50 /\ e.runs = 1
                      /\ e.pods_limit <= MaxFiles}

\* a pod of a deployment is named <deployment>-<hash>
IsPodOf(i, d) == Len(i.pod) = Len(d) + 1 /\ SubSeq(i.pod, 1, Len(d)) = d

\* the directory is the folder of a finished run, in which the scalable
\* deployment has a pod in the namespace that both exports report, or it is
\* the name of a folder that does not exist
InitFilter ==
    /\ \/ \E e \in FilterSettings, pods \in SUBSET Instances :
            \E custom_pods \in SUBSET {i \in pods : i.namespace = NAMESPACE} :
              \E order_m \in ListingOrders(e.pods_limit),
                 order_c \in ListingOrders(e.pods_limit) :
                 /\ \E i \in custom_pods : IsPodOf(i, e.SCALE_POD)
                 /\ dir = RawFolder(e, pods, custom_pods, order_m, order_c)
       \/ dir = MissingFolder
    /\ fd = [pc |-> "call", run |-> 1, data |-> <<>>, variations |-> <<>>, res_data |-> {}]
    /\ filtered_file \in {NoFile, PriorFile}
    /\ filter_log = <<>>
    /\ PVOff /\ BenchOff /\ MetricOff /\ MlOff

\* line 143
FilterGetData ==
    /\ fd.pc = "call"
    /\ fd' = [fd EXCEPT !.pc = "filter", !.data = get_data(dir)]
    /\ UNCHANGED <<dir, filtered_file, filter_log, pvVars, benchVars, metricVars, mlVars>>

\* lines 145-176; line 145 reads normal.namespace, an AttributeError when
\* get_data returned None
FilterBuild ==
    /\ fd.pc = "filter"
    /\ IF fd.data.none
       THEN fd' = [fd EXCEPT !.pc = "AttributeError"]
       ELSE LET variations == get_variation_matrices(dir)
            IN  fd' = [fd EXCEPT !.pc = "save", !.variations = variations,
                                 !.res_data = FilteredTable(fd.data, variations)]
    /\ UNCHANGED <<dir, filtered_file, filter_log, pvVars, benchVars, metricVars, mlVars>>

\* mutant of FilterSave: save_data writes the table whether or not the file
\* exists
FilterSaveOverwrite ==
    /\ fd.pc = "save"
    /\ filtered_file' = WrittenFile(fd.res_data)
    /\ filter_log' = filter_log
    /\ fd' = [fd EXCEPT !.pc = "returned"]
    /\ UNCHANGED <<dir, pvVars, benchVars, metricVars, mlVars>>

\* line 177 with save_data (lines 181-186), and the return of line 178
FilterSave ==
    /\ fd.pc = "save"
    /\ filtered_file' = IF ~filtered_file.exists THEN WrittenFile(fd.res_data)
                        ELSE filtered_file
    /\ filter_log' = IF ~filtered_file.exists THEN filter_log
                     ELSE Append(filter_log, [run |-> fd.run,
                                              message |-> "Filtered data already exists."])
    /\ fd' = [fd EXCEPT !.pc = "returned"]
    /\ UNCHANGED <<dir, pvVars, benchVars, metricVars, mlVars>>

\* a further call of filter_data on the same directory (filter_all_data,
\* lines 109-112; plot_filtered_data, line 195)
FilterAgain ==
    /\ fd.pc = "returned"
    /\ fd.run < MaxFilterRuns
    /\ fd' = [fd EXCEPT !.pc = "call", !.run = fd.run + 1]
    /\ UNCHANGED <<dir, filtered_file, filter_log, pvVars, benchVars, metricVars, mlVars>>

NextFilter == FilterGetData \/ FilterBuild \/ FilterSave \/ FilterAgain

SpecFilter == InitFilter /\ [][NextFilter]_vars

----------------------------------------------------------------------------
(* ml.py: get_data, the three model functions, save_model, load_model,     *)
(* get_models, train_for_all_targets.                                      *)
(* A file name is the sequence of its parts between "_" and ".".           *)

\* lines 254 and 238
Targets == <<"average response time", "cpu usage", "memory usage">>
TargetSet == {Targets[k] : k \in 1..Len(Targets)}

\* the model types train_for_all_targets can be asked for
Kinds == {"neural", "linear", "svr", "tree"}

\* the names of data a call can ask for and the files data/combined can hold
Dates == {"20210303-230654", "20210304-101500"}
CombinedFiles ==
    {<<"20210303-230654", "combined", "csv">>,
     <<"20210303-230654", "mean", "csv">>,
     <<"20210304-101500", "combined", "csv">>}

\* `date in file and "mean" not in file` (line 145)
Matches(date, file) ==
    /\ \E k \in 1..Len(file) : file[k] = date
    /\ ~\E k \in 1..Len(file) : file[k] = "mean"

\* get_data, lines 128-152: <<X, y>> read from the first matching file, or
\* the empty tuple for the None returned after the warning of line 152
ml_get_data(date, target, files) ==
    LET ms == {f \in files : Matches(date, f)}
    IN  IF ms = {} THEN <<>>
        ELSE LET file == CHOOSE f \in ms : TRUE
             IN  <<[file |-> file, columns |-> "parameters"],
                   [file |-> file, columns |-> target]>>

\* a Python object: its type and, for an estimator, what it was fitted on
Fitted(type, X, y) == [type |-> type, fitted_on |-> <<X, y>>]
False == [type |-> "bool", fitted_on |-> <<>>]

\* an estimator persisted before the call
PriorModel == [type |-> "LinearRegression", fitted_on |-> <<"earlier data">>]

\* joblib.dump (line 163) and joblib.load (lines 173, 243): the object as
\* the stream written to the file, and the object rebuilt from the stream
dump(obj) == <<"joblib", obj.type, obj.fitted_on>>
load(stream) == [type |-> stream[2], fitted_on |-> stream[3]]

PriorModelFile == [exists |-> TRUE, prior |-> TRUE, table |-> dump(PriorModel)]

\* save_model, lines 155-163
save_model(models, model, name) == [models EXCEPT ![name] = WrittenFile(dump(model))]

\* load_model, lines 166-173
load_model(models, name) == load(models[name].table)

\* obj.predict exists
CanPredict(obj) == obj.type \in {"LinearRegression", "Pipeline", "SVR"}

\* obj.predict(x): fixed by the estimator's type, its fit and the input
Predict(obj, x) == <<obj.type, obj.fitted_on, x>>

\* the estimator each model function fits (lines 35-38, 90-91, 113-116)
FitOf(kind, X, y) ==
    IF kind = "neural" THEN Fitted("Pipeline", X, y)
    ELSE IF kind = "linear" THEN Fitted("LinearRegression", X, y)
    ELSE Fitted("SVR", X, y)

\* the object each model function hands to save_model: mlp (line 125),
\* regression (line 48), and in svr_model the parameter `search` (line 98),
\* which train_for_all_targets passes as False (line 262)
SavedBy(kind, X, y) ==
    IF kind = "svr" THEN False ELSE FitOf(kind, X, y)

Logged(level, message) == [level |-> level, message |-> message]

----------------------------------------------------------------------------
(* Specification SpecTrain: train_for_all_targets, then get_models *)

InitTrain ==
    /\ combined_dir \in SUBSET CombinedFiles
    /\ models_dir \in [TargetSet -> {NoFile, PriorModelFile}]
    /\ \E date \in Dates, kind \in Kinds :
          tr = [pc |-> "get_data", date |-> date, kind |-> kind, k |-> 1,
                data |-> <<>>, fitted |-> <<>>, models |-> <<>>]
    /\ ml_log = <<>>
    /\ PVOff /\ BenchOff /\ MetricOff /\ FilterOff /\ AdvisorOff /\ WriteOff

\* lines 255-256: get_data for the next target; unpacking the None it
\* returns after its warning is a TypeError
TrainGetData ==
    /\ tr.pc = "get_data"
    /\ LET data == ml_get_data(tr.date, Targets[tr.k], combined_dir)
       IN  IF data = <<>>
           THEN /\ ml_log' = Append(ml_log, Logged("warning", "No filtered file found."))
                /\ tr' = [tr EXCEPT !.pc = "TypeError"]
           ELSE /\ ml_log' = ml_log
                /\ tr' = [tr EXCEPT !.pc = "fit", !.data = data]
    /\ UNCHANGED <<combined_dir, models_dir, pvVars, benchVars, metricVars, filterVars,
                   advisorVars, writeVars>>

\* mutant of TrainModel: an unknown model type is logged but the loop goes on
TrainModelNoAbort ==
    /\ tr.pc = "fit"
    /\ LET known == tr.kind \in {"neural", "linear", "svr"}
           t == Targets[tr.k]
           last == tr.k = Len(Targets)
           l1 == IF known THEN ml_log
                 ELSE Append(ml_log, Logged("warning", "There is no model type."))
       IN  /\ models_dir' = IF known
                            THEN save_model(models_dir, SavedBy(tr.kind, tr.data[1], tr.data[2]), t)
                            ELSE models_dir
           /\ tr' = [tr EXCEPT !.fitted = IF known
                                          THEN Append(tr.fitted,
                                                      FitOf(tr.kind, tr.data[1], tr.data[2]))
                                          ELSE tr.fitted,
                               !.k = IF last THEN tr.k ELSE tr.k + 1,
                               !.pc = IF last THEN "returned" ELSE "get_data"]
           /\ ml_log' = IF last THEN Append(l1, Logged("info", "All models are trained."))
                        ELSE l1
    /\ UNCHANGED <<combined_dir, pvVars, benchVars, metricVars, filterVars,
                   advisorVars, writeVars>>

\* lines 257-266: the model function of the asked type fits an estimator and
\* saves under the target's name, then the loop header and, after the last
\* target, the final message; an unknown type is logged and the call returns
TrainModel ==
    /\ tr.pc = "fit"
    /\ LET known == tr.kind \in {"neural", "linear", "svr"}
           t == Targets[tr.k]
           last == tr.k = Len(Targets)
       IN  IF known
           THEN /\ models_dir' = save_model(models_dir,
                                            SavedBy(tr.kind, tr.data[1], tr.data[2]), t)
                /\ tr' = [tr EXCEPT !.fitted = Append(tr.fitted,
                                                      FitOf(tr.kind, tr.data[1], tr.data[2])),
                                    !.k = IF last THEN tr.k ELSE tr.k + 1,
                                    !.pc = IF last THEN "returned" ELSE "get_data"]
                /\ ml_log' = IF last
                             THEN Append(ml_log, Logged("info", "All models are trained."))
                             ELSE ml_log
           ELSE /\ models_dir' = models_dir
                /\ tr' = [tr EXCEPT !.pc = "returned"]
                /\ ml_log' = Append(ml_log, Logged("warning", "There is no model type."))
    /\ UNCHANGED <<combined_dir, pvVars, benchVars, metricVars, filterVars,
                   advisorVars, writeVars>>

\* get_models, lines 233-244: the three persisted models, loaded in the order
\* of the targets; joblib.load of a missing file is a FileNotFoundError
TrainGetModels ==
    /\ tr.pc = "returned"
    /\ IF \A t \in TargetSet : models_dir[t].exists
       THEN tr' = [tr EXCEPT !.pc = "loaded",
                            !.models = [k \in 1..Len(Targets) |->
                                           load_model(models_dir, Targets[k])]]
       ELSE tr' = [tr EXCEPT !.pc = "FileNotFoundError"]
    /\ UNCHANGED <<combined_dir, models_dir, ml_log, pvVars, benchVars, metricVars,
                   filterVars, advisorVars, writeVars>>

NextTrain == TrainGetData \/ TrainModel \/ TrainGetModels

SpecTrain == InitTrain /\ [][NextTrain]_vars

----------------------------------------------------------------------------
(* Specification SpecAdvisor: get_best_parameters, ml.py:176-209 *)

\* the model files a training of each type leaves behind, or no files
ModelsTrained(kind) ==
    [t \in TargetSet |->
        WrittenFile(dump(SavedBy(kind, [file |-> <<"20210303-230654", "combined", "csv">>,
                                          columns |-> "parameters"],
                                 [file |-> <<"20210303-230654", "combined", "csv">>,
                                  columns |-> t])))]

\* choose_best, lines 212-230: the index TOPSIS ranks first is one of the
\* rows of the matrix it is given
choose_best(mtx) == DOMAIN mtx

InitAdvisor ==
    /\ \E cpu_limit \in {100 * c : c \in 1..MaxLimit},
          memory_limit \in {100 * c : c \in 1..MaxLimit},
          number_of_pods \in 1..MaxReplicas,
          window \in 1..MaxWindow,
          step \in {50 * k : k \in 1..MaxStep} :
          adv = [pc |-> "call", cpu_limit |-> cpu_limit, memory_limit |-> memory_limit,
                 number_of_pods |-> number_of_pods, window |-> window, step |-> step,
                 models |-> <<>>, predict_window |-> <<>>, predictions |-> <<>>,
                 i |-> 0, best_parameters |-> <<>>]
    /\ \/ \E kind \in {"neural", "linear", "svr"} : models_dir = ModelsTrained(kind)
       \/ models_dir = [t \in TargetSet |-> NoFile]
    /\ combined_dir = {} /\ tr = "none" /\ ml_log = <<>>
    /\ PVOff /\ BenchOff /\ MetricOff /\ FilterOff /\ WriteOff

\* lines 186-192: STEP, get_models, the empty arrays and the loop header; an
\* entry of np.empty not yet assigned is the empty tuple
AdvGetModels ==
    /\ adv.pc = "call"
    /\ IF \A t \in TargetSet : models_dir[t].exists
       THEN adv' = [adv EXCEPT
                      !.models = [k \in 1..Len(Targets) |-> load_model(models_dir, Targets[k])],
                      !.predict_window = [i \in 0..(adv.window * 2 - 1) |-> <<>>],
                      !.i = 0,
                      !.pc = IF 0 < 2 * adv.window THEN "window" ELSE "predict"]
       ELSE adv' = [adv EXCEPT !.pc = "FileNotFoundError"]
    /\ UNCHANGED <<trainVars, pvVars, benchVars, metricVars, filterVars, writeVars>>

\* mutant of AdvWindow: the offset is i % window, so it runs over 0..window-1
AdvWindowOffsetFromZero ==
    /\ adv.pc = "window"
    /\ LET i == adv.i
           j == i % adv.window
           point == IF i < adv.window
                    THEN <<adv.cpu_limit - (j * adv.step), adv.memory_limit - (j * adv.step),
                           adv.number_of_pods - j>>
                    ELSE <<adv.cpu_limit + (j * adv.step), adv.memory_limit + (j * adv.step),
                           adv.number_of_pods + j>>
       IN  adv' = [adv EXCEPT !.predict_window[i] = point,
                              !.i = i + 1,
                              !.pc = IF i + 1 < 2 * adv.window THEN "window" ELSE "predict"]
    /\ UNCHANGED <<trainVars, pvVars, benchVars, metricVars, filterVars, writeVars>>

\* lines 192-197: one pass of the loop over the window
AdvWindow ==
    /\ adv.pc = "window"
    /\ LET i == adv.i
           j == (i % adv.window) + 1
           point == IF i < adv.window
                    THEN <<adv.cpu_limit - (j * adv.step), adv.memory_limit - (j * adv.step),
                           adv.number_of_pods - j>>
                    ELSE <<adv.cpu_limit + (j * adv.step), adv.memory_limit + (j * adv.step),
                           adv.number_of_pods + j>>
       IN  adv' = [adv EXCEPT !.predict_window[i] = point,
                              !.i = i + 1,
                              !.pc = IF i + 1 < 2 * adv.window THEN "window" ELSE "predict"]
    /\ UNCHANGED <<trainVars, pvVars, benchVars, metricVars, filterVars, writeVars>>

\* lines 199-204: every model predicts every point of the window; an object
\* without predict is an AttributeError
AdvPredict ==
    /\ adv.pc = "predict"
    /\ IF \A k \in 1..Len(adv.models) : CanPredict(adv.models[k])
       THEN adv' = [adv EXCEPT
                      !.predictions = [i \in DOMAIN adv.predict_window |->
                                          [k \in 1..Len(adv.models) |->
                                              Predict(adv.models[k], adv.predict_window[i])]],
                      !.pc = "choose"]
       ELSE adv' = [adv EXCEPT !.pc = "AttributeError"]
    /\ UNCHANGED <<trainVars, pvVars, benchVars, metricVars, filterVars, writeVars>>

\* lines 206-209
AdvChoose ==
    /\ adv.pc = "choose"
    /\ \E best_outcome_index \in choose_best(adv.predictions) :
          adv' = [adv EXCEPT !.best_parameters = adv.predict_window[best_outcome_index],
                             !.pc = "returned"]
    /\ UNCHANGED <<trainVars, pvVars, benchVars, metricVars, filterVars, writeVars>>

NextAdvisor == AdvGetModels \/ AdvWindow \/ AdvPredict \/ AdvChoose

SpecAdvisor == InitAdvisor /\ [][NextAdvisor]_vars

----------------------------------------------------------------------------
(* Specification SpecWrites: the functions of the system that write files, *)
(* called in any order on a file system in which any of the target files   *)
(* may already exist.                                                      *)

\* the target paths: the two exports of iteration 1 (benchmark.py:86-87), a
\* variation table (292), a filtered table (formatting.py:182), the three
\* persistence files (benchmark.py:361-372) and a model (ml.py:162)
MetricsPath == "metrics_1.csv"
CustomMetricsPath == "custom_metrics_1.csv"
VariationPath == "webui_variation.csv"
FilteredPath == "run_filtered.csv"
CategoriesPath == "categories.json"
ProductsPath == "products.json"
UsersPath == "users.json"
ModelPath == "cpu usage.joblib"

Paths == {MetricsPath, CustomMetricsPath, VariationPath, FilteredPath,
          CategoriesPath, ProductsPath, UsersPath, ModelPath}

\* the paths each writer function writes to
TargetsOf(writer) ==
    IF writer = "get_prometheus_data" THEN {MetricsPath, CustomMetricsPath}
    ELSE IF writer = "parameter_variation" THEN {VariationPath}
    ELSE IF writer = "save_data" THEN {FilteredPath}
    ELSE IF writer = "get_persistence_data" THEN {CategoriesPath, ProductsPath, UsersPath}
    ELSE IF writer = "save_model" THEN {ModelPath}
    ELSE {}

\* what the call now made writes, and its entry in wr
NewContent(writer) == <<writer, Len(wr) + 1>>
Call(writer, outcome) == [writer |-> writer, outcome |-> outcome]

\* DataFrame.to_csv(path), joblib.dump(obj, path): the file is (re)written
Truncate(f, path, writer) == [f EXCEPT ![path] = WrittenFile(NewContent(writer))]

InitWrites ==
    /\ fs \in [Paths -> {NoFile, PriorFile}]
    /\ wr = <<>>
    /\ write_log = <<>>
    /\ PVOff /\ BenchOff /\ MetricOff /\ FilterOff /\ TrainOff /\ AdvisorOff

\* get_prometheus_data, benchmark.py:85-87
WriteExports ==
    /\ Len(wr) < MaxWrites
    /\ fs' = Truncate(Truncate(fs, MetricsPath, "get_prometheus_data"),
                      CustomMetricsPath, "get_prometheus_data")
    /\ wr' = Append(wr, Call("get_prometheus_data", "returned"))
    /\ UNCHANGED <<write_log, pvVars, benchVars, metricVars, filterVars,
                   trainVars, advisorVars>>

\* parameter_variation, benchmark.py:308-311
WriteVariation ==
    /\ Len(wr) < MaxWrites
    /\ fs' = IF ~fs[VariationPath].exists
             THEN Truncate(fs, VariationPath, "parameter_variation") ELSE fs
    /\ wr' = Append(wr, Call("parameter_variation", "returned"))
    /\ UNCHANGED <<write_log, pvVars, benchVars, metricVars, filterVars,
                   trainVars, advisorVars>>

\* save_data, formatting.py:181-186
SaveData ==
    /\ Len(wr) < MaxWrites
    /\ IF ~fs[FilteredPath].exists
       THEN /\ fs' = Truncate(fs, FilteredPath, "save_data")
            /\ write_log' = write_log
       ELSE /\ fs' = fs
            /\ write_log' = Append(write_log, [call |-> Len(wr) + 1,
                                              message |-> "Filtered data already exists."])
    /\ wr' = Append(wr, Call("save_data", "returned"))
    /\ UNCHANGED <<pvVars, benchVars, metricVars, filterVars, trainVars, advisorVars>>

\* get_persistence_data, benchmark.py:349-373: three files opened with mode
\* 'x' one after the other; open raises FileExistsError on a file that exists
GetPersistenceData ==
    /\ Len(wr) < MaxWrites
    /\ LET w == "get_persistence_data"
           f1 == Truncate(fs, CategoriesPath, w)
           f2 == Truncate(f1, ProductsPath, w)
           f3 == Truncate(f2, UsersPath, w)
       IN  IF fs[CategoriesPath].exists
           THEN fs' = fs /\ wr' = Append(wr, Call(w, "FileExistsError"))
           ELSE IF fs[ProductsPath].exists
           THEN fs' = f1 /\ wr' = Append(wr, Call(w, "FileExistsError"))
           ELSE IF fs[UsersPath].exists
           THEN fs' = f2 /\ wr' = Append(wr, Call(w, "FileExistsError"))
           ELSE fs' = f3 /\ wr' = Append(wr, Call(w, "returned"))
    /\ UNCHANGED <<write_log, pvVars, benchVars, metricVars, filterVars,
                   trainVars, advisorVars>>

\* save_model, ml.py:155-163
SaveModel ==
    /\ Len(wr) < MaxWrites
    /\ fs' = Truncate(fs, ModelPath, "save_model")
    /\ wr' = Append(wr, Call("save_model", "returned"))
    /\ UNCHANGED <<write_log, pvVars, benchVars, metricVars, filterVars,
                   trainVars, advisorVars>>

\* format_for_extra_p, formatting.py:211-232: the call of parameter_variation
\* in line 219 passes three of its eight required arguments, a TypeError
\* before the first output file is opened in line 232
FormatForExtraP ==
    /\ Len(wr) < MaxWrites
    /\ fs' = fs
    /\ wr' = Append(wr, Call("format_for_extra_p", "TypeError"))
    /\ UNCHANGED <<write_log, pvVars, benchVars, metricVars, filterVars,
                   trainVars, advisorVars>>

NextWrites ==
    \/ WriteExports
    \/ WriteVariation
    \/ SaveData
    \/ GetPersistenceData
    \/ SaveModel
    \/ FormatForExtraP

SpecWrites == InitWrites /\ [][NextWrites]_vars

----------------------------------------------------------------------------
(* Claims about parameter_variation, checked under SpecPV *)

PVBuilt == pv.pc \in {"fill", "save", "returned"}
PVFilled == pv.pc \in {"save", "returned"}

\* the values request, request + step, ... strictly below the limit
HalfOpen(request, limit, step) ==
    {v \in request..(limit - 1) : (v - request) % step = 0}

Ascending(a) == \A j, k \in DOMAIN a : j < k => a[j] < a[k]
Descending(a) == \A j, k \in DOMAIN a : j < k => a[j] > a[k]
Elements(a) == {a[k] : k \in DOMAIN a}

\* a is the listing of the set S, ascending, or descending when inverted
AxisIs(a, S, invert) ==
    /\ DOMAIN a = 0..(Cardinality(S) - 1)
    /\ Elements(a) = S
    /\ IF invert THEN Descending(a) ELSE Ascending(a)

\* C1: each of the CPU and memory axes lists exactly the values request,
\* request + step, ... strictly below the limit and the replica axis lists
\* 1..pods_limit, in ascending order; with invert the axis is the exact
\* reverse of the one built without invert, with the same elements.
C1_AxesHalfOpen ==
    PVBuilt =>
        LET a == pv.args
            plain == [a EXCEPT !.invert = FALSE]
        IN  /\ AxisIs(pv.cpu, HalfOpen(a.cpu_request, a.cpu_limit, a.step), a.invert)
            /\ AxisIs(pv.memory, HalfOpen(a.memory_request, a.memory_limit, a.step),
                      a.invert)
            /\ AxisIs(pv.pods, 1..a.pods_limit, a.invert)
            /\ a.invert =>
                /\ \A k \in DOMAIN pv.cpu :
                      pv.cpu[k] = AxisCpu(plain)[(Size(pv.cpu) - 1) - k]
                /\ \A k \in DOMAIN pv.memory :
                      pv.memory[k] = AxisMemory(plain)[(Size(pv.memory) - 1) - k]
                /\ \A k \in DOMAIN pv.pods :
                      pv.pods[k] = AxisPods(plain)[(Size(pv.pods) - 1) - k]
                /\ Size(pv.cpu) = Size(AxisCpu(plain))
                /\ Size(pv.memory) = Size(AxisMemory(plain))
                /\ Size(pv.pods) = Size(AxisPods(plain))

\* request=100, limit=500, step=100 inverted: the axis is 400, 300, 200, 100
C1_Witness ==
    /\ pv.pc = "returned"
    /\ pv.args.cpu_request = 100 /\ pv.args.cpu_limit = 500 /\ pv.args.step = 100
    /\ pv.args.invert
    /\ pv.cpu = [k \in 0..3 |-> 400 - 100 * k]
    /\ pv.pods = [k \in 0..(pv.args.pods_limit - 1) |-> pv.args.pods_limit - k]

\* C2: the grid has shape (cpu_count, memory_count, pods_count), hence size
\* cpu_count * memory_count * pods_count, its entry at every index (c, m, p)
\* is (cpu[c], memory[m], pods[p]), and every combination of the three axes
\* occurs at exactly one index.
C2_GridIsProduct ==
    PVFilled =>
        LET g == pv.variation_matrix
        IN  /\ DOMAIN g = (0..(Size(pv.cpu) - 1)) \X (0..(Size(pv.memory) - 1))
                              \X (0..(Size(pv.pods) - 1))
            /\ Cardinality(DOMAIN g) = Size(pv.cpu) * Size(pv.memory) * Size(pv.pods)
            /\ \A idx \in DOMAIN g :
                  g[idx] = <<pv.cpu[idx[1]], pv.memory[idx[2]], pv.pods[idx[3]]>>
            /\ \A x \in Elements(pv.cpu), y \in Elements(pv.memory), z \in Elements(pv.pods) :
                  Cardinality({idx \in DOMAIN g : g[idx] = <<x, y, z>>}) = 1

C2_Witness ==
    /\ pv.pc = "returned"
    /\ Size(pv.cpu) = 4 /\ Size(pv.memory) = 3 /\ Size(pv.pods) = 3
    /\ Cardinality(DOMAIN pv.variation_matrix) = 36
    /\ ~pv.args.invert
    /\ pv.variation_matrix[<<3, 2, 1>>] = <<pv.args.cpu_request + 3 * pv.args.step, 200, 2>>

\* C3 as claimed: a range with request = limit gives a one-element axis, and
\* the generated grid is never empty.
C3_DegenerateSingleElement ==
    PVBuilt =>
        /\ pv.args.cpu_request = pv.args.cpu_limit => Size(pv.cpu) = 1
        /\ pv.args.memory_request = pv.args.memory_limit => Size(pv.memory) = 1
        /\ Cardinality(DOMAIN pv.variation_matrix) > 0

\* C3 as amended: a range with request = limit gives an empty axis and with it
\* an empty grid; the grid is non-empty exactly when both requests are below
\* their limits (pods_limit being at least 1).
C3_DegenerateEmpty ==
    PVBuilt =>
        /\ pv.args.cpu_request = pv.args.cpu_limit => Size(pv.cpu) = 0
        /\ pv.args.memory_request = pv.args.memory_limit => Size(pv.memory) = 0
        /\ (pv.args.cpu_request = pv.args.cpu_limit
              \/ pv.args.memory_request = pv.args.memory_limit)
               => pv.variation_matrix = <<>> /\ pv.df = <<>>
        /\ Cardinality(DOMAIN pv.variation_matrix) > 0
               <=> /\ pv.args.cpu_request < pv.args.cpu_limit
                   /\ pv.args.memory_request < pv.args.memory_limit

C3_Witness ==
    /\ pv.pc = "returned"
    /\ pv.args.cpu_request = pv.args.cpu_limit
    /\ pv.args.memory_request < pv.args.memory_limit
    /\ pv.cpu = <<>> /\ Size(pv.memory) > 0
    /\ pv.variation_matrix = <<>>

\* C4: the flat table has one row per grid combination, indexed 1..N with
\* N = cpu_count * memory_count * pods_count; row k holds the values of the
\* k-th grid entry in row-major (cpu, memory, replica) order, no row is left
\* unset, and the table written to the file is this table.
C4_TableRowMajor ==
    PVFilled =>
        LET cn == Size(pv.cpu)
            mn == Size(pv.memory)
            pn == Size(pv.pods)
        IN  /\ DOMAIN pv.df = 1..(cn * mn * pn)
            /\ \A k \in DOMAIN pv.df :
                  /\ pv.df[k].CPU # NaN /\ pv.df[k].Memory # NaN /\ pv.df[k].Pods # NaN
                  /\ pv.iterations[k] = k
            /\ \A c \in 0..(cn - 1), m \in 0..(mn - 1), p \in 0..(pn - 1) :
                  LET k == (c * mn * pn) + (m * pn) + p + 1
                      e == pv.variation_matrix[<<c, m, p>>]
                  IN  /\ pv.df[k] = [CPU |-> Cell(e[1]), Memory |-> Cell(e[2]),
                                     Pods |-> Cell(e[3])]
                      /\ pv.df[k] = [CPU |-> Cell(pv.cpu[c]), Memory |-> Cell(pv.memory[m]),
                                     Pods |-> Cell(pv.pods[p])]
            /\ (pv.pc = "returned" /\ ~csv_file.prior) => csv_file = WrittenFile(pv.df)

C4_Witness ==
    /\ pv.pc = "returned"
    /\ Size(pv.cpu) = 2 /\ Size(pv.memory) = 2 /\ Size(pv.pods) = 3
    /\ csv_file.exists /\ ~csv_file.prior
    /\ DOMAIN csv_file.table = 1..12
    /\ csv_file.table[12] =
           [CPU |-> Cell(pv.cpu[1]), Memory |-> Cell(pv.memory[1]), Pods |-> Cell(pv.pods[2])]
    /\ csv_file.table[4] =
           [CPU |-> Cell(pv.cpu[0]), Memory |-> Cell(pv.memory[1]), Pods |-> Cell(pv.pods[0])]

----------------------------------------------------------------------------
(* Claims about the benchmark runner, checked under Spec *)

InGridPoint == bm.pc \in {"apply", "sleep", "poll", "locust", "locust_running", "export"}
AfterApply == bm.pc \in {"sleep", "poll", "locust", "locust_running", "export"}

GridSize == bm.shape[1] * bm.shape[2] * bm.shape[3]

\* 1-based row-major index of the grid index (c, m, p)
RowMajor(c, m, p) == (c * bm.shape[2] * bm.shape[3]) + (m * bm.shape[3]) + p + 1

\* the iteration numbers of the events of one kind, in log order
RECURSIVE IterationsOf(_, _)
IterationsOf(l, ev) ==
    IF l = <<>> THEN <<>>
    ELSE IF Head(l).ev = ev THEN <<Head(l).iteration>> \o IterationsOf(Tail(l), ev)
    ELSE IterationsOf(Tail(l), ev)

\* the kinds of the events of one iteration, in log order
RECURSIVE EventsOf(_, _)
EventsOf(l, k) ==
    IF l = <<>> THEN <<>>
    ELSE IF Head(l).iteration = k /\ Head(l).ev # "delete"
         THEN <<Head(l).ev>> \o EventsOf(Tail(l), k)
    ELSE EventsOf(Tail(l), k)

CountUpTo(n) == [k \in 1..n |-> k]

\* C5: the runner visits the grid in row-major order with an iteration
\* counter that starts at 1 and grows by 1 per grid point: while a grid point
\* (c, m, p) is processed the counter is its 1-based row-major index, the grid
\* entry there is row `iteration` of the variation table, the load runs and
\* the exports carry the numbers 1, 2, 3, ... each once and in order, and when
\* the loops end the last number is the grid size.
C5_IterationIsRowMajorIndex ==
    /\ InGridPoint =>
          /\ bm.c \in 0..(bm.shape[1] - 1)
          /\ bm.m \in 0..(bm.shape[2] - 1)
          /\ bm.p \in 0..(bm.shape[3] - 1)
          /\ bm.iteration = RowMajor(bm.c, bm.m, bm.p)
          /\ LET e == bm.variations[env.UI].variation_matrix[<<bm.c, bm.m, bm.p>>]
             IN  csv_file.table[bm.iteration] =
                     [CPU |-> Cell(e[1]), Memory |-> Cell(e[2]), Pods |-> Cell(e[3])]
          /\ IterationsOf(log, "load_start") =
                 CountUpTo(IF bm.pc \in {"locust_running", "export"}
                           THEN bm.iteration ELSE bm.iteration - 1)
          /\ IterationsOf(log, "export") = CountUpTo(bm.iteration - 1)
    /\ bm.pc = "delete" =>
          /\ IterationsOf(log, "load_start") = CountUpTo(GridSize)
          /\ IterationsOf(log, "export") = CountUpTo(GridSize)
          /\ bm.iteration = GridSize + 1
          /\ raw_dir = {<<"metrics", k>> : k \in 1..GridSize}
                           \cup {<<"custom_metrics", k>> : k \in 1..GridSize}

C5_Witness ==
    /\ bm.pc = "export"
    /\ bm.shape = <<2, 2, 3>>
    /\ bm.c = 1 /\ bm.m = 0 /\ bm.p = 2
    /\ bm.iteration = 9
    /\ IterationsOf(log, "load_start") = CountUpTo(9)

PhaseOrder == <<"update", "sleep", "healthy", "load_start", "load_end", "export">>

IsPrefix(s, t) == Len(s) <= Len(t) /\ \A k \in 1..Len(s) : s[k] = t[k]

\* C6 as claimed: every grid point passes the phases apply, wait, healthy
\* poll, load run, metrics snapshot in this order and completely before the
\* next grid point begins; the values applied are the grid point's.
C6_PhaseOrder ==
    InGridPoint =>
        /\ \A k \in 1..(bm.iteration - 1) : EventsOf(log, k) = PhaseOrder
        /\ IsPrefix(EventsOf(log, bm.iteration), PhaseOrder)
        /\ AfterApply =>
              /\ EventsOf(log, bm.iteration) # <<>>
              /\ deployed[env.SCALE_POD] =
                     bm.variations[env.UI].variation_matrix[<<bm.c, bm.m, bm.p>>]

\* C7 as claimed: deployment updates go to the designated scalable deployment
\* only, and it is updated at every grid point.
C7_OnlyScalableUpdated ==
    /\ \A k \in 1..Len(log) : log[k].ev = "update" => log[k].deployment = env.SCALE_POD
    /\ bm.pc \notin {"start_run", "benchmark", "KeyError"} =>
          \A d \in Deployments \ {env.SCALE_POD} : deployed[d] = "initial"
    /\ AfterApply =>
          \E k \in 1..Len(log) :
              /\ log[k].ev = "update"
              /\ log[k].iteration = bm.iteration
              /\ log[k].deployment = env.SCALE_POD

\* C8: when a health poll returns unhealthy the run stays in the poll loop:
\* that step starts no load run, writes no export, leaves the iteration
\* counter and the cluster alone and does not delete the namespace; the loop
\* is left only by a poll that returns healthy.
C8_BlocksWhileUnhealthy ==
    [][ /\ (bm.pc = "poll" /\ ~last_health') =>
              /\ bm' = bm
              /\ log' = log
              /\ raw_dir' = raw_dir
              /\ deployed' = deployed
        /\ (bm.pc = "poll" /\ bm'.pc # "poll") => last_health' ]_vars

\* a poll after the update of iteration 2 has returned unhealthy
C8_Witness ==
    /\ bm.pc = "poll"
    /\ bm.iteration = 2
    /\ ~last_health
    /\ EventsOf(log, 2) = <<"update", "sleep">>
    /\ IterationsOf(log, "load_start") = <<1>>

----------------------------------------------------------------------------
(* Claims about get_prometheus_metric, checked under SpecMetric *)

\* C9 as claimed: a call on the custom path with a metric name other than
\* "cpu" or "memory" logs an error and sends no range query, in particular
\* none with an unset query expression.
C9_UnknownMetricSkipsQuery ==
    \A k \in 1..Len(metric_calls) :
        (metric_calls[k].custom /\ metric_calls[k].metric_name \notin {"cpu", "memory"}) =>
            /\ \E e \in 1..Len(error_log) : error_log[e].call = k
            /\ \A q \in 1..Len(prom_queries) :
                  prom_queries[q].call = k => prom_queries[q].query # None
            /\ ~\E q \in 1..Len(prom_queries) : prom_queries[q].call = k

----------------------------------------------------------------------------
(* Claims about filter_data, checked under SpecFilter *)

FilterBuilt == fd.pc \in {"save", "returned"}

\* the variation rows with the key of an output row
VariationMatches(r) ==
    {k \in 1..Len(fd.variations) :
        fd.variations[k].Iteration = r.Iteration /\ fd.variations[k].pod = r.pod}

\* C10 as claimed: every row of the filtered table joins exactly one row of
\* the variation table on (Iteration, pod), so its cpu limit, memory limit
\* and number of pods are set, and no (Iteration, pod) key occurs twice.
C10_RowHasOneParameterPoint ==
    FilterBuilt =>
        /\ \A r \in fd.res_data :
              /\ Cardinality(VariationMatches(r)) = 1
              /\ r.cpu_limit # NaN /\ r.memory_limit # NaN /\ r.number_of_pods # NaN
        /\ \A r1, r2 \in fd.res_data :
              (r1.Iteration = r2.Iteration /\ r1.pod = r2.pod) => r1 = r2

\* the raw standard-metric rows an output row can stem from: those of the
\* export read as number r.Iteration whose pod name starts with r.pod
RawRowsOf(r) ==
    {raw \in dir.metrics[dir.order_m[r.Iteration]] : FirstPart(raw.pod) = r.pod}

RowInNamespace(r) ==
    /\ r.pod # <<"prometheus">>
    /\ r.Iteration \in 1..dir.n
    /\ \E raw \in RawRowsOf(r) : raw.namespace = NAMESPACE

\* C11: no row of the table filter_data builds, returns and writes has the pod
\* identifier "prometheus", and every such row stems from a raw
\* standard-metric row whose namespace is the configured NAMESPACE, whatever
\* pods the standard and the custom exports report.
C11_NoPrometheusOnlyNamespace ==
    FilterBuilt =>
        /\ \A r \in fd.res_data : RowInNamespace(r)
        /\ (filtered_file.exists /\ ~filtered_file.prior) =>
              \A r \in filtered_file.table : RowInNamespace(r)

\* the exports report a prometheus pod of the namespace and a pod of another
\* namespace, and the table written has rows
C11_Witness ==
    /\ fd.pc = "returned"
    /\ filtered_file.exists /\ ~filtered_file.prior
    /\ filtered_file.table # {}
    /\ \E raw \in dir.metrics[1] :
          raw.namespace = NAMESPACE /\ FirstPart(raw.pod) = <<"prometheus">>
    /\ \E raw \in dir.metrics[1] : raw.namespace # NAMESPACE

\* C12: a filtered file that exists is never changed by filter_data: when
\* save_data finds the file it writes nothing, logs one warning and returns
\* (no exception); a file is only ever created, with the table of the call
\* that created it, so after any number of calls on the same directory the
\* file holds the contents of the first write.
C12_RerunKeepsFilteredFile ==
    [][ /\ filtered_file.exists => filtered_file' = filtered_file
        /\ (fd.pc = "save" /\ filtered_file.exists) =>
              /\ fd'.pc = "returned"
              /\ Len(filter_log') = Len(filter_log) + 1
              /\ filter_log'[Len(filter_log')].run = fd.run
        /\ (~filtered_file.exists /\ filtered_file'.exists) =>
              /\ fd.pc = "save"
              /\ filtered_file' = WrittenFile(fd.res_data)
              /\ filter_log' = filter_log ]_vars

\* the second call on a directory whose file the first call wrote
C12_Witness ==
    /\ fd.pc = "returned"
    /\ fd.run = 2
    /\ filtered_file.exists /\ ~filtered_file.prior
    /\ filtered_file.table = fd.res_data
    /\ fd.res_data # {}
    /\ Len(filter_log) = 1
    /\ filter_log[1].run = 2

\* the rows of the export written as number k, as get_data would label them
\* if the label were the file's number
LabelledByFile(files, k) == {[Iteration |-> k] @@ raw : raw \in files[k]}

\* C19 as claimed: in what get_data returns, the rows labelled Iteration = k
\* are the rows of metrics_k.csv and of custom_metrics_k.csv, for every k and
\* every order in which the directory listing returns the files.
C19_IterationLabelIsFileNumber ==
    (dir.exists /\ fd.pc # "call") =>
        \A k \in 1..dir.n :
            /\ {r \in fd.data.normal : r.Iteration = k} = LabelledByFile(dir.metrics, k)
            /\ {r \in fd.data.custom : r.Iteration = k} = LabelledByFile(dir.custom, k)

----------------------------------------------------------------------------
(* Termination of the benchmark runner, checked under SpecLive *)

\* line 210 finds the grid of the UI deployment: the grid dict has the key
\* SCALE_POD only (lines 257-258)
HasGrid == env.UI = env.SCALE_POD

RunDeleted == bm.pc = "finished" \/ (bm.pc = "benchmark" /\ bm.run > 1)

DeletesIn(l) == {k \in 1..Len(l) : l[k].ev = "delete"}

\* what a benchmark run has done when it has deleted the namespace, and that
\* it has not deleted it before
RunAccounting ==
    /\ RunDeleted =>
          /\ IterationsOf(log, "load_start") = CountUpTo(GridSize)
          /\ IterationsOf(log, "load_end") = CountUpTo(GridSize)
          /\ IterationsOf(log, "export") = CountUpTo(GridSize)
          /\ DeletesIn(log) = {Len(log)}
          /\ raw_dir = {<<"metrics", k>> : k \in 1..GridSize}
                           \cup {<<"custom_metrics", k>> : k \in 1..GridSize}
    /\ (InGridPoint \/ bm.pc = "delete") => DeletesIn(log) = {}
    /\ bm.pc = "finished" => bm.run = env.runs
    /\ bm.pc # "start_run" => bm.run \in 1..env.runs

\* C20: under the fairness of SpecLive a start_run whose benchmark runs have
\* a grid finishes. Every benchmark run that has entered its grid of N
\* points reaches the deletion of the namespace; when it has, the run has made
\* exactly the load runs 1..N and the collections 1..N and has deleted the
\* namespace exactly once, as its last step; before that the namespace is not
\* deleted. The run counter only ever grows by one, from the start or from
\* the deletion that ends the run before, and it is `runs` at the end.
C20_RunsTerminate ==
    /\ []RunAccounting
    /\ [][bm'.run # bm.run =>
             /\ bm'.run = bm.run + 1
             /\ bm'.pc = "benchmark"
             /\ bm.pc \in {"start_run", "delete"}]_vars
    /\ [][(bm.pc = "delete" /\ bm'.pc # "delete") =>
             /\ Len(log') = Len(log) + 1
             /\ log'[Len(log')].ev = "delete"]_vars
    /\ (HasGrid ~> bm.pc = "finished")
    /\ ((bm.pc = "apply") ~> (bm.pc = "delete"))
    /\ ((bm.pc = "delete") ~> RunDeleted)

\* start_run with runs = 2 has finished its second run over a grid of 8 points
C20_Witness ==
    /\ bm.pc = "finished"
    /\ env.runs = 2 /\ bm.run = 2
    /\ GridSize = 8
    /\ IterationsOf(log, "load_start") = CountUpTo(8)
    /\ IterationsOf(log, "export") = CountUpTo(8)
    /\ log[Len(log)].ev = "delete"

----------------------------------------------------------------------------
(* Claims about the file writes, checked under SpecWrites *)

\* C13 as claimed: a call of a writing function never changes a file that
\* exists, and when one of its target files exists the call logs a warning
\* and returns without an exception.
C13_CreateIfAbsent ==
    [][ Len(wr') = Len(wr) + 1 =>
          LET call == wr'[Len(wr')]
          IN  /\ \A path \in Paths : fs[path].exists => fs'[path] = fs[path]
              /\ (\E path \in TargetsOf(call.writer) : fs[path].exists) =>
                    /\ call.outcome = "returned"
                    /\ Len(write_log') = Len(write_log) + 1 ]_vars

----------------------------------------------------------------------------
(* Claims about train_for_all_targets, checked under SpecTrain *)

KnownKind == tr.kind \in {"neural", "linear", "svr"}
TrainEnded == tr.pc \notin {"get_data", "fit"}
NoDataFor(date) == \A f \in combined_dir : ~Matches(date, f)
WarningLogged == \E k \in 1..Len(ml_log) : ml_log[k].level = "warning"
NoModelWritten == \A t \in TargetSet : models_dir[t] \in {NoFile, PriorModelFile}

\* C14 as claimed: when no file of data/combined matches the date, get_data
\* logs a warning and returns nothing, and train_for_all_targets ends without
\* raising an error and without persisting a model.
C14_MissingFilesNoError ==
    (NoDataFor(tr.date) /\ TrainEnded) =>
        /\ WarningLogged
        /\ NoModelWritten
        /\ tr.pc \notin {"TypeError", "AttributeError"}

\* C15 as claimed: after train_for_all_targets with a recognized model type
\* has completed, for each of the three targets the object persisted under
\* the target's name is the estimator of that type fitted in the call, and
\* the object loaded back can predict and predicts as the fitted one does.
C15_PersistedModelRoundTrip ==
    (KnownKind /\ tr.pc \in {"returned", "loaded"}) =>
        \A k \in 1..Len(Targets) :
            LET t == Targets[k]
                fitted == tr.fitted[k]
                loaded == load_model(models_dir, t)
            IN  /\ models_dir[t].exists /\ ~models_dir[t].prior
                /\ fitted = FitOf(tr.kind, tr.data[1], [tr.data[2] EXCEPT !.columns = t])
                /\ loaded.type = fitted.type
                /\ CanPredict(loaded)
                /\ \A x \in {<<300, 300, 2>>, <<400, 350, 1>>} :
                      Predict(loaded, x) = Predict(fitted, x)
                /\ tr.pc = "loaded" => tr.models[k] = loaded

\* C16: a call with a model type other than "neural", "linear", "svr" never
\* fits an estimator, never writes or replaces a model file, never emits the
\* final 'All models are trained.' message and never gets past the first
\* target; when it has ended a warning has been logged, and when the data of
\* the date exists that warning is the one about the model type and the call
\* has returned.
C16_UnknownFamilyAborts ==
    ~KnownKind =>
        /\ tr.fitted = <<>>
        /\ NoModelWritten
        /\ \A k \in 1..Len(ml_log) : ml_log[k].level # "info"
        /\ tr.k = 1
        /\ TrainEnded => WarningLogged
        /\ (TrainEnded /\ ~NoDataFor(tr.date)) =>
              /\ ml_log = <<Logged("warning", "There is no model type.")>>
              /\ tr.pc \in {"returned", "loaded", "FileNotFoundError"}

\* a call with the type "tree" on data that exists has returned; one model
\* file of an earlier training is still there
C16_Witness ==
    /\ tr.kind = "tree"
    /\ tr.pc = "returned"
    /\ ~NoDataFor(tr.date)
    /\ tr.data # <<>>
    /\ ml_log = <<Logged("warning", "There is no model type.")>>
    /\ models_dir["cpu usage"] = PriorModelFile
    /\ models_dir["memory usage"] = NoFile

----------------------------------------------------------------------------
(* Claims about get_best_parameters, checked under SpecAdvisor *)

AdvBuilt == adv.pc \in {"predict", "choose", "returned", "AttributeError"}

\* the current point stepped down and up j times
SteppedDown(j) ==
    <<adv.cpu_limit - j * adv.step, adv.memory_limit - j * adv.step, adv.number_of_pods - j>>
SteppedUp(j) ==
    <<adv.cpu_limit + j * adv.step, adv.memory_limit + j * adv.step, adv.number_of_pods + j>>

\* C17: once the window is built it holds exactly 2 * window candidate
\* points: for each offset j in 1..window the point stepped down j times and
\* the point stepped up j times, each at exactly one position, and nothing
\* else; the current point is not among them; the point returned is one of
\* the candidates.
C17_WindowIsTwiceW ==
    /\ AdvBuilt =>
          LET w == adv.predict_window
          IN  /\ DOMAIN w = 0..(2 * adv.window - 1)
              /\ Cardinality(DOMAIN w) = 2 * adv.window
              /\ \A j \in 1..adv.window :
                    /\ Cardinality({i \in DOMAIN w : w[i] = SteppedDown(j)}) = 1
                    /\ Cardinality({i \in DOMAIN w : w[i] = SteppedUp(j)}) = 1
              /\ \A i \in DOMAIN w :
                    \E j \in 1..adv.window : w[i] \in {SteppedDown(j), SteppedUp(j)}
              /\ \A i \in DOMAIN w :
                    w[i] # <<adv.cpu_limit, adv.memory_limit, adv.number_of_pods>>
              /\ Cardinality({w[i] : i \in DOMAIN w}) = 2 * adv.window
    /\ adv.pc = "returned" =>
          \E i \in DOMAIN adv.predict_window : adv.best_parameters = adv.predict_window[i]

\* window 2, step 50, cpu 300: the candidate CPUs are 200, 250, 350, 400, and
\* a point has been returned
C17_Witness ==
    /\ adv.pc = "returned"
    /\ adv.window = 2 /\ adv.step = 50 /\ adv.cpu_limit = 300
    /\ {adv.predict_window[i][1] : i \in DOMAIN adv.predict_window} = {200, 250, 350, 400}
    /\ adv.best_parameters = <<200, adv.memory_limit - 100, adv.number_of_pods - 2>>

\* C18 as claimed: every candidate of the window, and the point returned,
\* has positive cpu and memory and at least one replica (the current point
\* being valid).
C18_CandidatesValid ==
    (/\ AdvBuilt
     /\ adv.cpu_limit > 0 /\ adv.memory_limit > 0 /\ adv.number_of_pods >= 1) =>
        /\ \A i \in DOMAIN adv.predict_window :
              /\ adv.predict_window[i][1] > 0
              /\ adv.predict_window[i][2] > 0
              /\ adv.predict_window[i][3] >= 1
        /\ adv.pc = "returned" =>
              /\ adv.best_parameters[1] > 0
              /\ adv.best_parameters[2] > 0
              /\ adv.best_parameters[3] >= 1

====
